---- MODULE Spec2Model ----
(***************************************************************************)
(* A model of modev's notebook export: src/src/modev/build.py              *)
(* (extract_export_details, run_export) and src/src/modev/cli.py (export). *)
(*                                                                         *)
(* Text is a sequence of tokens.  A token is a tuple whose first element   *)
(* names what the text is: the marker "#| export", a newline, a blank, a   *)
(* chunk of code of one cell, a "#| default_exp <name>" directive, the     *)
(* provenance comment of one cell, or the "__all__ = [...]" line.          *)
(* A file name is a record [abs, segs]: whether it starts with "/", and    *)
(* its segments; a segment is a sequence of atoms, so that "shared.py" is  *)
(* <<"shared", ".py">> and ".." is <<"..">>.  A symbol name is a sequence  *)
(* of one-character strings.                                               *)
(***************************************************************************)
EXTENDS Integers, Sequences, FiniteSets, TLC

VARIABLES
    python_files,          \* the notebooks rglob found, in the order it gave them
    nbs_is_dir,            \* nbs_dir.is_dir()
    pc,                    \* where run_export (or the extraction) stands
    idx,                   \* position of the loop over python_files
    processed_files_count,
    exported_files_count,
    written_files,         \* paths written through a directive, this run
    target_filename,       \* the three values extract_export_details returned last
    file_code,
    defined_names,
    files,                 \* the file system: resolved path -> content
    dirs,                  \* the file system: the directories
    events,                \* what this run printed and wrote, in order
    exit_code,             \* the exit code of the process (-1 while it runs)
    run,                   \* 1 in the first run, 2 in the second
    files_before           \* the files the first run left

vars == <<python_files, nbs_is_dir, pc, idx, processed_files_count,
          exported_files_count, written_files, target_filename, file_code,
          defined_names, files, dirs, events, exit_code, run, files_before>>

---------------------------------------------------------------------------
(* Text *)

MARKER == <<"marker">>
NL == <<"nl">>
SP == <<"sp">>
CodeOf(cid) == <<"code", cid>>
DefaultExp(name) == <<"default_exp", name>>
OriginComment(path, cid) == <<"origin", path, cid>>
DunderAll(names) == <<"__all__", names>>

Kind(tok) == tok[1]

IsSpace(tok) == Kind(tok) \in {"nl", "sp"}

RECURSIVE lstrip(_)
lstrip(s) ==
    IF Len(s) > 0 /\ IsSpace(s[1]) THEN lstrip(Tail(s)) ELSE s

RECURSIVE rstrip(_)
rstrip(s) ==
    IF Len(s) > 0 /\ IsSpace(s[Len(s)])
    THEN rstrip(SubSeq(s, 1, Len(s) - 1))
    ELSE s

strip(s) == rstrip(lstrip(s))

\* the index of the first token of kind k in s, 0 when there is none
find(s, k) ==
    IF \E i \in 1..Len(s) : Kind(s[i]) = k
    THEN CHOOSE i \in 1..Len(s) :
            /\ Kind(s[i]) = k
            /\ \A j \in 1..(i - 1) : Kind(s[j]) # k
    ELSE 0

contains_marker(s) == find(s, "marker") # 0

\* s.replace("#| export", new): every marker is replaced
RECURSIVE replace_every_marker(_, _)
replace_every_marker(s, new) ==
    IF Len(s) = 0 THEN s
    ELSE (IF Kind(Head(s)) = "marker" THEN new ELSE <<Head(s)>>)
         \o replace_every_marker(Tail(s), new)

\* s.replace("#| export", new, 1)
replace_first_marker(s, new) ==
    LET i == find(s, "marker")
    IN  IF i = 0 THEN s
        ELSE SubSeq(s, 1, i - 1) \o new \o SubSeq(s, i + 1, Len(s))

startswith(s, tok) == Len(s) > 0 /\ s[1] = tok

---------------------------------------------------------------------------
(* File names and paths *)

PY == ".py"
DOTDOT == <<"..">>

None == [abs |-> FALSE, segs |-> <<>>]

Seg(stem) == <<stem>>
PyFile(stem) == <<stem, PY>>

endswith_py(name) ==
    LET last == name.segs[Len(name.segs)] IN last[Len(last)] = PY

add_py(name) ==
    LET n == Len(name.segs)
    IN  [name EXCEPT !.segs = [name.segs EXCEPT ![n] = Append(name.segs[n], PY)]]

\* base / name of pathlib: an absolute name replaces the base
JoinPath(base, name) == IF name.abs THEN name.segs ELSE base \o name.segs

\* the path the operating system reaches: ".." steps to the parent
RECURSIVE ResolveFrom(_, _)
ResolveFrom(cur, segs) ==
    IF Len(segs) = 0 THEN cur
    ELSE IF Head(segs) = DOTDOT
         THEN ResolveFrom(IF Len(cur) = 0 THEN cur ELSE SubSeq(cur, 1, Len(cur) - 1),
                          Tail(segs))
         ELSE ResolveFrom(Append(cur, Head(segs)), Tail(segs))

Resolve(path) == ResolveFrom(<<>>, path)

IsPrefix(p, q) == Len(p) <= Len(q) /\ SubSeq(q, 1, Len(p)) = p

project_root == <<Seg("proj")>>
nbs_dir == project_root \o <<Seg("nbs")>>
output_base_dir == project_root \o <<Seg("out")>>

---------------------------------------------------------------------------
(* extract_export_details *)

is_export_cell(cell) == cell.language = "python" /\ contains_marker(cell.code)

\* the keys of export_cells, in definition order
export_cells(app) ==
    SelectSeq([k \in 1..Len(app.cells) |-> k],
              LAMBDA k : is_export_cell(app.cells[k]))

\* re.search(r"^#\|\s*default_exp\s+(\S+)", code, re.MULTILINE): the index of
\* the first directive that starts a line, 0 when there is none
re_search_default_exp(code) ==
    LET hits == {i \in 1..Len(code) :
                    /\ Kind(code[i]) = "default_exp"
                    /\ (i = 1 \/ Kind(code[i - 1]) = "nl")}
    IN  IF hits = {} THEN 0
        ELSE CHOOSE i \in hits : \A j \in hits : i <= j

directive_of(app) ==
    LET ids == export_cells(app)
    IN  IF Len(ids) = 0 THEN None
        ELSE LET first_cell == app.cells[ids[1]]
                 m == re_search_default_exp(first_cell.code)
             IN  IF first_cell.language # "python" \/ m = 0 THEN None
                 ELSE LET target_name == first_cell.code[m][2]
                      IN  IF endswith_py(target_name) THEN target_name
                          ELSE add_py(target_name)

\* the path of the notebook relative to the project root
relative_notebook_path(app) == <<Seg("nbs")>> \o app.rel

cell_piece(app, cell_id) ==
    LET cell == app.cells[cell_id]
        origin_comment == OriginComment(relative_notebook_path(app), cell_id)
        cleaned_code == strip(replace_first_marker(cell.code, <<origin_comment>>))
    IN  IF Len(cleaned_code) = 0 THEN <<>>
        ELSE IF ~startswith(cleaned_code, origin_comment)
             THEN <<origin_comment, NL>> \o cleaned_code \o <<NL, NL>>
             ELSE cleaned_code \o <<NL, NL>>

\* the loop over the cells in the order of their definition
RECURSIVE code_export_in_definition_order(_, _, _)
code_export_in_definition_order(app, order, code_export) ==
    IF Len(order) = 0 THEN code_export
    ELSE LET cell_id == CHOOSE c \in {order[i] : i \in 1..Len(order)} :
                            \A i \in 1..Len(order) : c <= order[i]
             rest == SelectSeq(order, LAMBDA c : c # cell_id)
         IN  IF cell_id \in 1..Len(app.cells) /\ is_export_cell(app.cells[cell_id])
             THEN code_export_in_definition_order(app, rest,
                                   code_export \o cell_piece(app, cell_id))
             ELSE code_export_in_definition_order(app, rest, code_export)

RECURSIVE code_export_loop(_, _, _)
code_export_loop(app, order, code_export) ==
    IF Len(order) = 0 THEN code_export
    ELSE LET cell_id == Head(order)
         IN  IF cell_id \in 1..Len(app.cells) /\ is_export_cell(app.cells[cell_id])
             THEN code_export_loop(app, Tail(order),
                                   code_export \o cell_piece(app, cell_id))
             ELSE code_export_loop(app, Tail(order), code_export)

all_defs_of(app) ==
    UNION {app.cells[app.execution_order[k]].defs :
              k \in {j \in 1..Len(app.execution_order) :
                        is_export_cell(app.cells[app.execution_order[j]])}}

extract_export_details(app) ==
    IF app.status = "marimo_error"
    THEN [target_filename |-> None, code_export |-> <<>>, all_defs |-> {}]
    ELSE [target_filename |-> directive_of(app),
          code_export |-> strip(code_export_loop(app, app.execution_order, <<>>)),
          all_defs |-> all_defs_of(app)]

---------------------------------------------------------------------------
(* The manifest line *)

\* the code points of the characters the symbol names use
Ord ==
    [c \in {"B", "Z", "_", "a", "b", "f", "m", "o", "r", "z"} |->
        CASE c = "B" -> 66 [] c = "Z" -> 90 [] c = "_" -> 95 [] c = "a" -> 97
          [] c = "b" -> 98 [] c = "f" -> 102 [] c = "m" -> 109 [] c = "o" -> 111
          [] c = "r" -> 114 [] c = "z" -> 122]

\* a < b on strings
RECURSIVE str_less(_, _)
str_less(a, b) ==
    IF Len(a) = 0 THEN Len(b) > 0
    ELSE IF Len(b) = 0 THEN FALSE
    ELSE IF a[1] = b[1] THEN str_less(Tail(a), Tail(b))
    ELSE Ord[a[1]] < Ord[b[1]]

RECURSIVE sorted(_)
sorted(S) ==
    IF S = {} THEN <<>>
    ELSE LET least == CHOOSE x \in S : \A y \in S \ {x} : str_less(x, y)
         IN  <<least>> \o sorted(S \ {least})

is_public(name) == ~(Len(name) > 0 /\ name[1] = "_")

\* the names, the private ones too
all_names(names) == names

public_names(names) == {name \in names : is_public(name)}

dunder_all_list(names) == sorted(public_names(names))

final_code_to_write(names, code) ==
    <<DunderAll(dunder_all_list(names)), NL, NL>> \o code

---------------------------------------------------------------------------
(* The file system *)

Parent(path) == IF Len(path) = 0 THEN path ELSE SubSeq(path, 1, Len(path) - 1)

\* path.mkdir(parents=True, exist_ok=True): [ok, dirs, at], walking the segments of path from
\* cur: every directory on the way is made, and a file on the way stops it
RECURSIVE mkdir_parents(_, _, _, _)
mkdir_parents(cur, segs, fs, ds) ==
    IF Len(segs) = 0 THEN [ok |-> TRUE, dirs |-> ds, at |-> cur]
    ELSE LET nxt == IF Head(segs) = DOTDOT THEN Parent(cur)
                    ELSE Append(cur, Head(segs))
         IN  IF nxt \in DOMAIN fs
             THEN [ok |-> FALSE, dirs |-> ds, at |-> nxt]
             ELSE mkdir_parents(nxt, Tail(segs), fs, ds \cup {nxt})

\* the content is appended to the file when there is one
write_text_appending(fs, target, content) ==
    [p \in DOMAIN fs \cup {target} |->
        IF p # target THEN fs[p]
        ELSE IF target \in DOMAIN fs THEN fs[target] \o content ELSE content]

\* target.write_text(content): the file is created or replaced
write_text(fs, target, content) ==
    [p \in DOMAIN fs \cup {target} |-> IF p = target THEN content ELSE fs[p]]

\* path.exists(), walking the segments of path from cur: every name on the
\* way has to be a directory, the last a file or a directory
RECURSIVE path_exists(_, _, _, _)
path_exists(cur, segs, fs, ds) ==
    IF Len(segs) = 0 THEN cur \in DOMAIN fs \cup ds
    ELSE cur \in ds /\
         path_exists(IF Head(segs) = DOTDOT THEN Parent(cur)
                     ELSE Append(cur, Head(segs)),
                     Tail(segs), fs, ds)

\* the mkdir and the write_text of one output file: [ok, files, dirs]
write_file(path, content, fs, ds) ==
    LET made == mkdir_parents(<<>>, Parent(path), fs, ds)
        target == ResolveFrom(made.at, <<path[Len(path)]>>)
    IN  IF ~made.ok \/ target \in made.dirs
        THEN [ok |-> FALSE, files |-> fs, dirs |-> made.dirs]
        ELSE [ok |-> TRUE,
              files |-> write_text(fs, target, content),
              dirs |-> made.dirs]

---------------------------------------------------------------------------
(* The notebooks *)

MaxNotebooks == 3
MaxCells == 3

foo == <<"f", "o", "o">>
bar_ == <<"_", "b", "a", "r">>
Baz == <<"B", "a", "z">>
mo == <<"m", "o">>

\* the sources of a cell, for the cell at position k of its notebook
ExportCell(k, defs) ==
    [code |-> <<MARKER, NL, CodeOf(k)>>, language |-> "python", defs |-> defs]
PlainCell(k, defs) ==
    [code |-> <<CodeOf(k)>>, language |-> "python", defs |-> defs]
DirectiveCell(name) ==
    [code |-> <<DefaultExp(name)>>, language |-> "python", defs |-> {}]
DirectiveExportCell(k, name, defs) ==
    [code |-> <<DefaultExp(name), NL, MARKER, NL, CodeOf(k)>>,
     language |-> "python", defs |-> defs]

\* the names a directive gives
Shared == [abs |-> FALSE, segs |-> <<Seg("shared")>>]
SharedPy == [abs |-> FALSE, segs |-> <<PyFile("shared")>>]
UpA == [abs |-> FALSE, segs |-> <<DOTDOT, Seg("a")>>]
AbsShared == [abs |-> TRUE, segs |-> <<Seg("shared")>>]
SubUpShared == [abs |-> FALSE, segs |-> <<Seg("sub"), DOTDOT, Seg("shared")>>]
UnderSharedPy == [abs |-> FALSE, segs |-> <<PyFile("shared"), Seg("a")>>]

DirectiveNames == {Shared, SharedPy, UpA, AbsShared, SubUpShared, UnderSharedPy}

\* the cells and the execution order of a notebook
NoExport == [cells |-> <<PlainCell(1, {foo})>>, execution_order |-> <<1>>]
OneExport == [cells |-> <<ExportCell(1, {foo})>>, execution_order |-> <<1>>]
\* as nbs/core.py: the directive alone in the first cell
LikeCore(name) ==
    [cells |-> <<DirectiveCell(name), PlainCell(2, {mo}), ExportCell(3, {foo})>>,
     execution_order |-> <<1, 2, 3>>]
TwoExports ==
    [cells |-> <<ExportCell(1, {foo, bar_}), PlainCell(2, {mo}),
                 ExportCell(3, {Baz, foo})>>,
     execution_order |-> <<3, 2, 1>>]
WithDirective(name) ==
    [cells |-> <<DirectiveExportCell(1, name, {foo})>>, execution_order |-> <<1>>]

A_py == <<PyFile("a")>>
Sub_a_py == <<Seg("sub"), PyFile("a")>>
Shared_py == <<PyFile("shared")>>
Init_py == <<PyFile("__init__")>>

Notebook(rel, shape, status) ==
    [rel |-> rel, cells |-> shape.cells,
     execution_order |-> shape.execution_order, status |-> status]

\* the notebooks run_export is given
Notebooks ==
    {Notebook(A_py, shape, "ok") :
        shape \in {NoExport, OneExport, LikeCore(Shared), TwoExports}
                  \cup {WithDirective(name) : name \in DirectiveNames}}
    \cup {Notebook(A_py, OneExport, status) :
            status \in {"import_error", "no_app", "marimo_error"}}
    \cup {Notebook(Sub_a_py, shape, "ok") :
            shape \in {OneExport, LikeCore(Shared), TwoExports,
                       WithDirective(Shared), WithDirective(SubUpShared)}}
    \cup {Notebook(Shared_py, shape, "ok") : shape \in {NoExport, OneExport}}
    \cup {Notebook(rel, OneExport, "import_error") : rel \in {Sub_a_py, Shared_py}}
    \cup {Notebook(Init_py, OneExport, "ok")}

SeqsUpTo(S, n) == UNION {[1..m -> S] : m \in 0..n}

\* what rglob can return: files of different paths, in any order
NotebookLists ==
    {l \in SeqsUpTo(Notebooks, MaxNotebooks) :
        \A i, j \in 1..Len(l) : i # j => l[i].rel # l[j].rel}

---------------------------------------------------------------------------
(* run_export *)

NoFiles == [p \in {} |-> <<>>]

Event(ev, nb, path) == [ev |-> ev, nb |-> nb, path |-> path]

Init ==
    /\ nbs_is_dir \in BOOLEAN
    /\ python_files \in IF nbs_is_dir THEN NotebookLists ELSE {<<>>}
    /\ pc = "start"
    /\ idx = 1
    /\ processed_files_count = 0
    /\ exported_files_count = 0
    /\ written_files = {}
    /\ target_filename = None
    /\ file_code = <<>>
    /\ defined_names = {}
    /\ files = NoFiles
    /\ dirs = {<<>>, project_root, nbs_dir}
    /\ events = <<>>
    /\ exit_code = -1
    /\ run = 1
    /\ files_before = NoFiles

\* lines 175-204: the counters, the export directory, the notebooks
Start ==
    /\ pc = "start"
    /\ nbs_is_dir
    /\ pc' = "loop"
    /\ idx' = 1
    /\ processed_files_count' = 0
    /\ exported_files_count' = 0
    /\ written_files' = {}
    /\ dirs' = dirs \cup {output_base_dir}
    /\ UNCHANGED <<python_files, nbs_is_dir, target_filename, file_code,
                   defined_names, files, events, exit_code, run, files_before>>

\* lines 199-201 and 285-287: the notebooks directory is missing
StartFails ==
    /\ pc = "start"
    /\ ~nbs_is_dir
    /\ pc' = "failed"
    /\ dirs' = dirs \cup {output_base_dir}
    /\ events' = Append(events, Event("fatal", 0, <<>>))
    /\ exit_code' = 1
    /\ UNCHANGED <<python_files, nbs_is_dir, idx, processed_files_count,
                   exported_files_count, written_files, target_filename,
                   file_code, defined_names, files, run, files_before>>

InLoop == pc = "loop" /\ idx <= Len(python_files)

py_file == python_files[idx]

is_init_py(nb) == nb.rel[Len(nb.rel)] = PyFile("__init__")

default_output_path(nb) == output_base_dir \o nb.rel

\* lines 240-250: the path the code of a notebook is written to
output_file_path(nb, target) ==
    IF target # None THEN JoinPath(output_base_dir, target)
    ELSE default_output_path(nb)

\* lines 243-247: the warning printed before the write, if any
overwrite_warning(nb, target, written, fs, ds) ==
    LET path == output_file_path(nb, target)
    IN  IF target = None THEN <<>>
        ELSE IF path \in written
             THEN <<Event("collision_warning", idx, path)>>
        ELSE IF path_exists(<<>>, path, fs, ds)
             THEN <<Event("exists_warning", idx, path)>>
        ELSE <<>>

\* the path is not recorded
written_unchanged(nb, target, written) == written

\* line 248
written_after(nb, target, written) ==
    IF target # None THEN written \cup {output_file_path(nb, target)}
    ELSE written

\* lines 208-217: __init__.py is passed over
ProcessInitPy ==
    /\ InLoop
    /\ is_init_py(py_file)
    /\ processed_files_count' = processed_files_count + 1
    /\ target_filename' = None
    /\ idx' = idx + 1
    /\ UNCHANGED <<python_files, nbs_is_dir, pc, exported_files_count,
                   written_files, file_code, defined_names, files, dirs, events,
                   exit_code, run, files_before>>

\* the error of one notebook ends the run
ProcessImportErrorEndsRun ==
    /\ InLoop
    /\ ~is_init_py(py_file)
    /\ py_file.status = "import_error"
    /\ processed_files_count' = processed_files_count + 1
    /\ target_filename' = None
    /\ events' = Append(events, Event("fatal", idx, nbs_dir \o py_file.rel))
    /\ pc' = "failed"
    /\ exit_code' = 1
    /\ UNCHANGED <<python_files, nbs_is_dir, idx, exported_files_count,
                   written_files, file_code, defined_names, files, dirs,
                   run, files_before>>

\* lines 231 and 271-274: the import of the notebook raises
ProcessImportError ==
    /\ InLoop
    /\ ~is_init_py(py_file)
    /\ py_file.status = "import_error"
    /\ processed_files_count' = processed_files_count + 1
    /\ target_filename' = None
    /\ events' = Append(events, Event("import_error", idx, nbs_dir \o py_file.rel))
    /\ idx' = idx + 1
    /\ UNCHANGED <<python_files, nbs_is_dir, pc, exported_files_count,
                   written_files, file_code, defined_names, files, dirs,
                   exit_code, run, files_before>>

\* line 233: the module holds no marimo App
ProcessNoApp ==
    /\ InLoop
    /\ ~is_init_py(py_file)
    /\ py_file.status = "no_app"
    /\ processed_files_count' = processed_files_count + 1
    /\ target_filename' = None
    /\ idx' = idx + 1
    /\ UNCHANGED <<python_files, nbs_is_dir, pc, exported_files_count,
                   written_files, file_code, defined_names, files, dirs, events,
                   exit_code, run, files_before>>

Extracts(nb) == ~is_init_py(nb) /\ nb.status \in {"ok", "marimo_error"}

\* lines 236-238: nothing of the notebook is tagged for export
ProcessNoCode ==
    /\ InLoop
    /\ Extracts(py_file)
    /\ LET got == extract_export_details(py_file)
       IN  /\ Len(got.code_export) = 0
           /\ target_filename' = got.target_filename
           /\ file_code' = got.code_export
           /\ defined_names' = got.all_defs
    /\ processed_files_count' = processed_files_count + 1
    /\ idx' = idx + 1
    /\ UNCHANGED <<python_files, nbs_is_dir, pc, exported_files_count,
                   written_files, files, dirs, events, exit_code, run,
                   files_before>>

\* lines 236-269: the code of the notebook is written, or the write fails
ProcessExport ==
    /\ InLoop
    /\ Extracts(py_file)
    /\ LET got == extract_export_details(py_file)
           path == output_file_path(py_file, got.target_filename)
           warned == overwrite_warning(py_file, got.target_filename,
                                       written_files, files, dirs)
           wrote == write_file(path,
                               final_code_to_write(got.all_defs, got.code_export),
                               files, dirs)
       IN  /\ Len(got.code_export) > 0
           /\ target_filename' = got.target_filename
           /\ file_code' = got.code_export
           /\ defined_names' = got.all_defs
           /\ written_files' = written_after(py_file, got.target_filename,
                                             written_files)
           /\ files' = wrote.files
           /\ dirs' = wrote.dirs
           /\ exported_files_count' =
                 IF wrote.ok THEN exported_files_count + 1 ELSE exported_files_count
           /\ events' = events \o warned \o
                 <<Event(IF wrote.ok THEN "write" ELSE "write_error", idx, path)>>
    /\ processed_files_count' = processed_files_count + 1
    /\ idx' = idx + 1
    /\ UNCHANGED <<python_files, nbs_is_dir, pc, exit_code, run, files_before>>

\* lines 277-289 and cli.py 19-20: the summary, and the command returns
Finish ==
    /\ pc = "loop"
    /\ idx > Len(python_files)
    /\ events' = Append(events, Event("summary", 0, <<>>))
    /\ pc' = "done"
    /\ exit_code' = 0
    /\ UNCHANGED <<python_files, nbs_is_dir, idx, processed_files_count,
                   exported_files_count, written_files, target_filename,
                   file_code, defined_names, files, dirs, run, files_before>>

\* the command is run again on the same notebooks
RunAgain ==
    /\ pc = "done"
    /\ run = 1
    /\ run' = 2
    /\ files_before' = files
    /\ pc' = "start"
    /\ events' = <<>>
    /\ exit_code' = -1
    /\ target_filename' = None
    /\ file_code' = <<>>
    /\ defined_names' = {}
    /\ UNCHANGED <<python_files, nbs_is_dir, idx, processed_files_count,
                   exported_files_count, written_files, files, dirs>>

Next ==
    \/ Start
    \/ StartFails
    \/ ProcessInitPy
    \/ ProcessImportError
    \/ ProcessNoApp
    \/ ProcessNoCode
    \/ ProcessExport
    \/ Finish
    \/ RunAgain

Spec == Init /\ [][Next]_vars

---------------------------------------------------------------------------
(* extract_export_details alone, on one notebook *)

\* the sources of the cell at position k
CellSources(k) ==
    {<<MARKER, NL, CodeOf(k)>>,
     <<MARKER>>,
     <<CodeOf(k)>>,
     <<CodeOf(k), SP, MARKER>>,
     <<MARKER, NL, CodeOf(k), NL, MARKER>>,
     <<DefaultExp(Shared)>>,
     <<DefaultExp(SharedPy), NL, MARKER, NL, CodeOf(k)>>}

DefsAt(k) == IF k = 1 THEN {foo, bar_} ELSE IF k = 2 THEN {Baz} ELSE {mo, foo}

CellsAt(k) ==
    {[code |-> src, language |-> "python", defs |-> DefsAt(k)] : src \in CellSources(k)}
    \cup {[code |-> <<MARKER, NL, CodeOf(k)>>, language |-> "sql", defs |-> DefsAt(k)]}

RECURSIVE CellListsOf(_)
CellListsOf(n) ==
    IF n = 0 THEN {<<>>}
    ELSE {Append(l, c) : l \in CellListsOf(n - 1), c \in CellsAt(n)}

CellLists == UNION {CellListsOf(n) : n \in 1..MaxCells}

Orders(n) == {o \in [1..n -> 1..n] : \A i, j \in 1..n : i # j => o[i] # o[j]}

ExtractApp(cells, order) ==
    [rel |-> A_py, cells |-> cells, execution_order |-> order, status |-> "ok"]

InitExtract ==
    /\ nbs_is_dir = TRUE
    /\ \E l \in CellLists : \E o \in Orders(Len(l)) :
          python_files = <<ExtractApp(l, o)>>
    /\ pc = "extract"
    /\ idx = 1
    /\ processed_files_count = 0
    /\ exported_files_count = 0
    /\ written_files = {}
    /\ target_filename = None
    /\ file_code = <<>>
    /\ defined_names = {}
    /\ files = NoFiles
    /\ dirs = {<<>>, project_root, nbs_dir}
    /\ events = <<>>
    /\ exit_code = -1
    /\ run = 1
    /\ files_before = NoFiles

\* line 236: target_filename, file_code, defined_names = extract_export_details(...)
Extract ==
    /\ pc = "extract"
    /\ LET got == extract_export_details(python_files[1])
       IN  /\ target_filename' = got.target_filename
           /\ file_code' = got.code_export
           /\ defined_names' = got.all_defs
    /\ pc' = "extracted"
    /\ UNCHANGED <<python_files, nbs_is_dir, idx, processed_files_count,
                   exported_files_count, written_files, files, dirs, events,
                   exit_code, run, files_before>>

NextExtract == Extract

SpecExtract == InitExtract /\ [][NextExtract]_vars

---------------------------------------------------------------------------
(* What the claims speak of *)

TheApp == python_files[1]

Markers(code) == {i \in 1..Len(code) : code[i] = MARKER}

\* the cells of a notebook that are tagged for export
Exportable(app) ==
    {k \in 1..Len(app.cells) :
        app.cells[k].language = "python" /\ Markers(app.cells[k].code) # {}}

InDefinitionOrder(app) ==
    SelectSeq([k \in 1..Len(app.cells) |-> k], LAMBDA k : k \in Exportable(app))

InExecutionOrder(app) ==
    SelectSeq(app.execution_order, LAMBDA k : k \in Exportable(app))

Provenance(app, k) == OriginComment(<<Seg("nbs")>> \o app.rel, k)

\* the cell a token of the assembled text comes from, 0 for none
CellOfToken(tok) ==
    IF Kind(tok) = "origin" THEN tok[3]
    ELSE IF Kind(tok) = "code" THEN tok[2]
    ELSE 0

\* the cells of the assembled text, in the order of the text, a run of tokens
\* of one cell counted once
RECURSIVE CellsInText(_, _)
CellsInText(text, last) ==
    IF Len(text) = 0 THEN <<>>
    ELSE LET c == CellOfToken(Head(text))
         IN  IF c = 0 \/ c = last THEN CellsInText(Tail(text), last)
             ELSE <<c>> \o CellsInText(Tail(text), c)

NonSpace(text) == SelectSeq(text, LAMBDA tok : ~IsSpace(tok))

\* the text up to the provenance comment of another cell, without the
\* provenance comments of cell k
RECURSIVE OwnText(_, _)
OwnText(text, k) ==
    IF Len(text) = 0 THEN <<>>
    ELSE IF Kind(Head(text)) = "origin" /\ Head(text)[3] # k THEN <<>>
    ELSE IF Kind(Head(text)) = "origin" THEN OwnText(Tail(text), k)
    ELSE <<Head(text)>> \o OwnText(Tail(text), k)

\* the source of cell k without its first marker
RemainingCode(app, k) ==
    LET code == app.cells[k].code
        first == CHOOSE i \in Markers(code) : \A j \in Markers(code) : i <= j
    IN  SubSeq(code, 1, first - 1) \o SubSeq(code, first + 1, Len(code))

\* the text holds the provenance comment of cell k on a line of its own, and
\* after it the remaining code of the cell
ProvenanceThenCode(app, k, text) ==
    \E i \in 1..Len(text) :
        /\ text[i] = Provenance(app, k)
        /\ (i = 1 \/ text[i - 1] = NL)
        /\ (i = Len(text) \/ text[i + 1] = NL)
        /\ NonSpace(OwnText(SubSeq(text, i + 1, Len(text)), k))
              = NonSpace(RemainingCode(app, k))

\* the markers of the exportable cells after the first of each cell
LaterMarkers(app) ==
    UNION {{<<k, i>> : i \in {i \in Markers(app.cells[k].code) :
                                \E j \in Markers(app.cells[k].code) : j < i}} :
              k \in Exportable(app)}

---------------------------------------------------------------------------
(* The claims about extract_export_details, under SpecExtract *)

\* C4: the cells of the assembled text are the exportable cells, each once,
\* in the execution order filtered to them, not in the definition order.
C4_ExecutionOrder ==
    pc = "extracted" => CellsInText(file_code, 0) = InExecutionOrder(TheApp)

C4_Witness ==
    /\ pc = "extracted"
    /\ Len(InExecutionOrder(TheApp)) >= 2
    /\ InExecutionOrder(TheApp) # InDefinitionOrder(TheApp)
    /\ Len(TheApp.cells) > Len(InExecutionOrder(TheApp))
    /\ CellsInText(file_code, 0) = InExecutionOrder(TheApp)

\* C6: an exportable cell whose source is the marker alone contributes
\* nothing: its provenance comment is not in the assembled text.
C6_NoDanglingComment ==
    pc = "extracted" =>
        \A k \in Exportable(TheApp) :
            Len(NonSpace(RemainingCode(TheApp, k))) = 0 =>
                \A i \in 1..Len(file_code) : file_code[i] # Provenance(TheApp, k)

\* C7 as stated: the assembled text holds, for every exportable cell, its
\* provenance comment line followed by its remaining code, and never holds
\* the marker.
C7_NeverTheMarker ==
    pc = "extracted" =>
        /\ \A k \in Exportable(TheApp) : ProvenanceThenCode(TheApp, k, file_code)
        /\ Markers(file_code) = {}

\* C7 as amended: the assembled text holds, for every exportable cell, its
\* provenance comment line followed by its remaining code; only the first
\* marker of a cell is replaced, so the text holds as many markers as the
\* exportable cells hold after their first, and none when each holds one.
C7_FirstMarkerReplaced ==
    pc = "extracted" =>
        /\ \A k \in Exportable(TheApp) : ProvenanceThenCode(TheApp, k, file_code)
        /\ Cardinality(Markers(file_code)) = Cardinality(LaterMarkers(TheApp))
        /\ (\A k \in Exportable(TheApp) :
                Cardinality(Markers(TheApp.cells[k].code)) = 1)
             => Markers(file_code) = {}

C7_Witness ==
    /\ pc = "extracted"
    /\ TheApp.cells[1].code = <<MARKER, NL, CodeOf(1)>>
    /\ Exportable(TheApp) = {1}
    /\ file_code = <<Provenance(TheApp, 1), NL, CodeOf(1)>>

---------------------------------------------------------------------------
(* The claims about run_export, under Spec *)

WriteEvents == {k \in 1..Len(events) : events[k].ev = "write"}
WriteAttempts == {k \in 1..Len(events) : events[k].ev \in {"write", "write_error"}}

\* the directive a notebook carries: the first line "#| default_exp <name>"
\* of its cells, in the order of their definition
DirectiveLines(nb) ==
    UNION {{<<k, i>> : i \in {i \in 1..Len(nb.cells[k].code) :
                                /\ Kind(nb.cells[k].code[i]) = "default_exp"
                                /\ (i = 1 \/ nb.cells[k].code[i - 1] = NL)}} :
              k \in 1..Len(nb.cells)}

CarriedDirective(nb) ==
    IF DirectiveLines(nb) = {} THEN None
    ELSE LET at == CHOOSE h \in DirectiveLines(nb) :
                      \A g \in DirectiveLines(nb) :
                          h[1] < g[1] \/ (h[1] = g[1] /\ h[2] <= g[2])
         IN  nb.cells[at[1]].code[at[2]][2]

\* a name as "foo" or "foo.py": one segment, not ".."
IsPlainName(name) ==
    ~name.abs /\ Len(name.segs) = 1 /\ name.segs[1] # DOTDOT

FooPy(name) ==
    IF name.segs[1][Len(name.segs[1])] = PY THEN name.segs[1]
    ELSE name.segs[1] \o <<PY>>

\* the notebook loads and has code to export
HasExport(nb) ==
    nb.rel[Len(nb.rel)] # PyFile("__init__") /\ nb.status = "ok" /\ Exportable(nb) # {}

\* C1: a notebook with a directive "default_exp foo" is written to foo.py
\* under the export root, wherever the notebook lies; a notebook without a
\* directive is written to the path that mirrors its own.
C1_DirectivePrecedence ==
    \A k \in WriteAttempts :
        LET nb == python_files[events[k].nb]
            name == CarriedDirective(nb)
        IN  /\ (name # None /\ IsPlainName(name))
                 => events[k].path = output_base_dir \o <<FooPy(name)>>
            /\ name = None => events[k].path = output_base_dir \o nb.rel

\* C2 as stated: a write to a path that an earlier notebook of the run wrote
\* is preceded by the collision warning, and the run goes on.
C2_EveryCollisionWarned ==
    \A k \in WriteEvents :
        (\E j \in WriteEvents : j < k /\ events[j].path = events[k].path)
            => /\ k > 1
               /\ events[k - 1] = Event("collision_warning", events[k].nb, events[k].path)
               /\ pc \in {"loop", "done"}

FromDirective(k) == directive_of(python_files[events[k].nb]) # None

\* C2 as amended: a write to a path that came from the directive of the
\* notebook, and that an earlier notebook of the run wrote through its own
\* directive, is preceded by the collision warning, and the run goes on.
C2_DirectiveCollisionWarned ==
    \A k \in WriteEvents :
        (/\ FromDirective(k)
         /\ \E j \in WriteEvents :
               j < k /\ FromDirective(j) /\ events[j].path = events[k].path)
            => /\ k > 1
               /\ events[k - 1] = Event("collision_warning", events[k].nb, events[k].path)
               /\ pc \in {"loop", "done"}
               /\ exit_code \in {-1, 0}

C2_Witness ==
    /\ pc = "done"
    /\ \E k \in WriteEvents : \E j \in WriteEvents :
          /\ j < k
          /\ FromDirective(j)
          /\ FromDirective(k)
          /\ events[j].path = events[k].path
          /\ events[k - 1].ev = "collision_warning"

SharedPath == output_base_dir \o <<PyFile("shared")>>

\* C3: of two notebooks with the directive "default_exp shared" and code to
\* export, both are written to shared.py under the export root, the first
\* without the collision warning, the second after it; both are counted, and
\* the file holds the code of the second.
C3_LastWriteWins ==
    (/\ pc = "done"
     /\ Len(python_files) = 2
     /\ \A i \in 1..2 : /\ HasExport(python_files[i])
                        /\ CarriedDirective(python_files[i]) = Shared)
        => /\ SelectSeq(events, LAMBDA e : e.ev \in {"write", "write_error",
                                                      "collision_warning"})
                 = <<Event("write", 1, SharedPath),
                     Event("collision_warning", 2, SharedPath),
                     Event("write", 2, SharedPath)>>
           /\ exported_files_count = 2
           /\ SharedPath \in DOMAIN files
           /\ \E i \in 1..Len(files[SharedPath]) :
                 /\ Kind(files[SharedPath][i]) = "origin"
                 /\ files[SharedPath][i][2] = <<Seg("nbs")>> \o python_files[2].rel
           /\ \A i \in 1..Len(files[SharedPath]) :
                 Kind(files[SharedPath][i]) = "origin"
                     => files[SharedPath][i][2] # <<Seg("nbs")>> \o python_files[1].rel

JustWritten ==
    /\ pc = "loop"
    /\ Len(events) > 0
    /\ events[Len(events)].ev = "write"
    /\ events[Len(events)].nb = idx - 1

\* C8: a file that is written starts with the line __all__ = [...] of the
\* names the exportable cells of its notebook define that do not start with
\* an underscore, sorted and each once, then one blank line, then the code.
C8_Manifest ==
    JustWritten =>
        LET e == events[Len(events)]
            nb == python_files[e.nb]
            content == files[Resolve(e.path)]
            listed == content[1][2]
        IN  /\ Len(content) > 3
            /\ Kind(content[1]) = "__all__"
            /\ \A i, j \in 1..Len(listed) : i < j => str_less(listed[i], listed[j])
            /\ {listed[i] : i \in 1..Len(listed)} =
                  {name \in UNION {nb.cells[k].defs : k \in Exportable(nb)} :
                      name[1] # "_"}
            /\ content[2] = NL
            /\ content[3] = NL
            /\ ~IsSpace(content[4])
            /\ SubSeq(content, 4, Len(content)) = file_code

C8_Witness ==
    /\ JustWritten
    /\ UNION {python_files[events[Len(events)].nb].cells[k].defs :
                 k \in Exportable(python_files[events[Len(events)].nb])}
          = {foo, bar_, Baz}
    /\ files[Resolve(events[Len(events)].path)][1] = DunderAll(<<Baz, foo>>)

\* C9: a second run on the same notebooks leaves the files the first left.
C9_Idempotent ==
    (pc = "done" /\ run = 2) => files = files_before

C9_Witness ==
    /\ pc = "done"
    /\ run = 2
    /\ files = files_before
    /\ \E j, k \in WriteEvents :
          j < k /\ Resolve(events[j].path) = Resolve(events[k].path)
    /\ \E k \in 1..Len(events) : events[k].ev = "write_error"

\* C10: every file that is written lies inside the export root.
C10_InsideExportRoot ==
    \A p \in DOMAIN files : IsPrefix(output_base_dir, p)

====
